---- MODULE Spec2Model ----
(***************************************************************************)
(* A model of src/heap.py: class MinHeap, a binary min-heap kept in a      *)
(* Python list.  The list self.heap is the sequence heap; the code's       *)
(* zero-based index i is position i + 1 of the sequence.                   *)
(***************************************************************************)
EXTENDS Integers, Sequences, FiniteSets, TLC

\* Bounds of the model: the longest list and the largest element value.
MaxLen == 5
MaxVal == 2

Values == 0..MaxVal
Seqs == UNION {[1..n -> Values] : n \in 0..MaxLen}

VARIABLES
  heap,      \* the contents of the list object self.heap refers to
  arr,       \* the contents of the list object the caller passed as data
  shared,    \* TRUE iff self.heap and the caller's data are the same object
  last,      \* the last call: its name, argument, outcome and what it did
  items,     \* the values a sort run is given (constructor data, or to insert)
  pending,   \* the values of items still to be inserted
  out,       \* the values returned by the pops of a drain, in order
  expected,  \* ghost: bag of data + inserted values - popped values (and what
             \* the caller's own assignments to shared storage made of it)
  count      \* ghost: len(data) + inserts - successful pops

vars == <<heap, arr, shared, last, items, pending, out, expected, count>>

-----------------------------------------------------------------------------
(* Python list access and the index helpers *)

\* self.heap[i]: a negative index counts from the end of the list.
At(h, i) == IF i < 0 THEN h[Len(h) + i + 1] ELSE h[i + 1]

\* (i - 1) >> 1: an arithmetic shift, so the floor of (i - 1) / 2.
parent(i) == (i - 1) \div 2

left(i) == (2 * i) + 1

right(i) == (2 * i) + 2

swapDropsOne(h, i, j) == [h EXCEPT ![i + 1] = h[j + 1]]

swap(h, i, j) == [h EXCEPT ![i + 1] = h[j + 1], ![j + 1] = h[i + 1]]

-----------------------------------------------------------------------------
(* heapify: the index `smallest` it settles on, then the recursion *)

SmallestRightOnTie(h, i) ==
  LET size == Len(h)
      s1 == IF left(i) < size /\ At(h, left(i)) < At(h, i) THEN left(i) ELSE i
  IN  IF right(i) < size /\ At(h, right(i)) <= At(h, s1) THEN right(i) ELSE s1

SmallestLeftOnly(h, i) ==
  IF left(i) < Len(h) /\ At(h, left(i)) < At(h, i) THEN left(i) ELSE i

Smallest(h, i) ==
  LET size == Len(h)
      s1 == IF left(i) < size /\ At(h, left(i)) < At(h, i) THEN left(i) ELSE i
  IN  IF right(i) < size /\ At(h, right(i)) < At(h, s1) THEN right(i) ELSE s1

\* heapify(i) on list h.  steps lists every call of heapify, the recursive
\* ones included: its index, the smallest it chose, the list as it found it.
RECURSIVE heapify(_, _)
heapify(h, i) ==
  LET smallest == Smallest(h, i)
      step == [i |-> i, smallest |-> smallest, pre |-> h]
  IN  IF smallest # i
        THEN LET r == heapify(swap(h, i, smallest), smallest)
             IN  [heap |-> r.heap, steps |-> <<step>> \o r.steps]
        ELSE [heap |-> h, steps |-> <<step>>]

\* The for loop of build_min_heap from index i down to 0.  calls lists the
\* indices the loop passes to heapify.
RECURSIVE buildLoop(_, _)
buildLoop(r, i) ==
  IF i < 0
    THEN r
    ELSE LET q == heapify(r.heap, i)
         IN  buildLoop([heap |-> q.heap,
                        steps |-> r.steps \o q.steps,
                        calls |-> Append(r.calls, i)], i - 1)

build_min_heapStartsLow(h) ==
  buildLoop([heap |-> h, steps |-> <<>>, calls |-> <<>>],
            ((Len(h) - 1) \div 2) - 1)

build_min_heap(h) ==
  buildLoop([heap |-> h, steps |-> <<>>, calls |-> <<>>], (Len(h) - 1) \div 2)

\* __init__(data): data itself is the storage when it is non-empty.
MinHeapInit(data) ==
  IF data # <<>>
    THEN build_min_heap(data)
    ELSE [heap |-> <<>>, steps |-> <<>>, calls |-> <<>>]

\* Whether __init__ keeps the caller's list object as self.heap.
InitShares(data) == data # <<>>

-----------------------------------------------------------------------------
(* pop and insert *)

popFailsOnLast(h) ==
  IF Len(h) <= 1
    THEN [heap |-> h, ret |-> <<>>, err |-> "IndexError", steps |-> <<>>]
    ELSE LET q == heapify([SubSeq(h, 1, Len(h) - 1) EXCEPT ![1] = h[Len(h)]], 0)
         IN  [heap |-> q.heap, ret |-> <<h[1]>>, err |-> "none", steps |-> q.steps]

popReturnsLast(h) ==
  IF h = <<>>
    THEN [heap |-> h, ret |-> <<>>, err |-> "IndexError", steps |-> <<>>]
    ELSE [heap |-> SubSeq(h, 1, Len(h) - 1), ret |-> <<h[Len(h)]>>,
          err |-> "none", steps |-> <<>>]

pop(h) ==
  IF h = <<>>
    THEN [heap |-> h, ret |-> <<>>, err |-> "IndexError", steps |-> <<>>]
    ELSE LET root == h[1]
             last_element == h[Len(h)]
             rest == SubSeq(h, 1, Len(h) - 1)
         IN  IF rest # <<>>
               THEN LET q == heapify([rest EXCEPT ![1] = last_element], 0)
                    IN  [heap |-> q.heap, ret |-> <<root>>, err |-> "none",
                         steps |-> q.steps]
               ELSE [heap |-> rest, ret |-> <<root>>, err |-> "none",
                     steps |-> <<>>]

\* The loop condition of insert: `and` evaluates parent(i) only when i > 0.
BubbleGE(h, i) == i > 0 /\ At(h, parent(i)) >= At(h, i)

BubbleNever(h, i) == FALSE

Bubble(h, i) == i > 0 /\ At(h, parent(i)) > At(h, i)

\* The while loop of insert from index i.  swaps lists the pairs swapped;
\* probes lists the indices whose parent the condition looked up.
RECURSIVE siftUp(_, _)
siftUp(r, i) ==
  LET probed == IF i > 0 THEN Append(r.probes, i) ELSE r.probes
  IN  IF Bubble(r.heap, i)
        THEN siftUp([heap |-> swap(r.heap, i, parent(i)),
                     swaps |-> Append(r.swaps, <<i, parent(i)>>),
                     probes |-> probed], parent(i))
        ELSE [r EXCEPT !.probes = probed]

insert(h, value) ==
  LET appended == Append(h, value)
  IN  siftUp([heap |-> appended, swaps |-> <<>>, probes |-> <<>>],
             Len(appended) - 1)

\* The names class MinHeap defines; a call of any other name on an instance
\* raises AttributeError before any code of the class runs.
MinHeapMethods ==
  {"__init__", "parent", "left", "right", "swap", "heapify", "build_min_heap",
   "pop", "insert", "__str__"}

Lookup(name) == IF name \in MinHeapMethods THEN "none" ELSE "AttributeError"

-----------------------------------------------------------------------------
(* The state machine *)

BagOf(s) == [v \in Values |-> Cardinality({k \in DOMAIN s : s[k] = v})]

Call(op, arg, ret, err, swaps, probes, steps, calls) ==
  [op |-> op, arg |-> arg, ret |-> ret, err |-> err, pre |-> heap,
   prearr |-> arr, swaps |-> swaps, probes |-> probes, steps |-> steps,
   calls |-> calls]

\* heap = MinHeap(data)
Construct(data) ==
  LET r == MinHeapInit(data)
  IN  /\ heap = r.heap
      /\ shared = InitShares(data)
      /\ arr = IF InitShares(data) THEN r.heap ELSE data
      /\ last = [op |-> "init", arg |-> <<>>, ret |-> <<>>, err |-> "none",
                 pre |-> data, prearr |-> data, swaps |-> <<>>,
                 probes |-> <<>>, steps |-> r.steps, calls |-> r.calls]
      /\ expected = BagOf(data)
      /\ count = Len(data)

Init ==
  /\ \E data \in Seqs : Construct(data)
  /\ items = <<>>
  /\ pending = <<>>
  /\ out = <<>>

\* heap.insert(value)
DoInsert(value) ==
  /\ Len(heap) < MaxLen
  /\ LET r == insert(heap, value)
     IN  /\ heap' = r.heap
         /\ arr' = IF shared THEN r.heap ELSE arr
         /\ last' = Call("insert", <<value>>, <<>>, "none", r.swaps, r.probes,
                         <<>>, <<>>)
  /\ expected' = [expected EXCEPT ![value] = @ + 1]
  /\ count' = count + 1
  /\ UNCHANGED shared

\* heap.pop(), on any heap: an empty one raises IndexError
DoPop ==
  LET r == pop(heap)
  IN  /\ heap' = r.heap
      /\ arr' = IF shared THEN r.heap ELSE arr
      /\ last' = Call("pop", <<>>, r.ret, r.err, <<>>, <<>>, r.steps, <<>>)
      /\ expected' = IF r.err = "none"
                       THEN [expected EXCEPT ![r.ret[1]] = @ - 1]
                       ELSE expected
      /\ count' = IF r.err = "none" THEN count - 1 ELSE count
      /\ UNCHANGED shared

Insert ==
  /\ \E value \in Values : DoInsert(value)
  /\ UNCHANGED <<items, pending, out>>

Pop ==
  /\ DoPop
  /\ UNCHANGED <<items, pending, out>>

\* heap.peek(): the attribute lookup on the instance
Peek ==
  /\ last' = Call("peek", <<>>, <<>>, Lookup("peek"), <<>>, <<>>, <<>>, <<>>)
  /\ UNCHANGED <<heap, arr, shared, items, pending, out, expected, count>>

Next == Insert \/ Pop \/ Peek

Spec == Init /\ [][Next]_vars

\* The caller, who still holds the list it passed as data, assigns data[k] = v.
CallerSetItem ==
  /\ \E k \in DOMAIN arr : \E v \in Values :
        /\ arr' = [arr EXCEPT ![k] = v]
        /\ heap' = IF shared THEN [arr EXCEPT ![k] = v] ELSE heap
        /\ last' = Call("setitem", <<k - 1, v>>, <<>>, "none", <<>>, <<>>,
                        <<>>, <<>>)
  /\ expected' = IF shared THEN BagOf(heap') ELSE expected
  /\ UNCHANGED <<shared, items, pending, out, count>>

NextAlias == Insert \/ Pop \/ CallerSetItem

SpecAlias == Init /\ [][NextAlias]_vars

\* Heap sort by the container: the values of items go in, by the constructor
\* or by one insert each in the order of items, then pops empty the heap.
InitSort ==
  /\ items \in Seqs
  /\ out = <<>>
  /\ \/ Construct(items) /\ pending = <<>>
     \/ Construct(<<>>) /\ pending = items /\ items # <<>>

Feed ==
  /\ pending # <<>>
  /\ DoInsert(Head(pending))
  /\ pending' = Tail(pending)
  /\ UNCHANGED <<items, out>>

Drain ==
  /\ pending = <<>>
  /\ heap # <<>>
  /\ DoPop
  /\ out' = out \o last'.ret
  /\ UNCHANGED <<items, pending>>

NextSort == Feed \/ Drain

SpecSort == InitSort /\ [][NextSort]_vars

-----------------------------------------------------------------------------
(* Properties *)

IsHeap(h) ==
  \A i \in 0..(Len(h) - 1) :
    /\ (2 * i) + 1 < Len(h) => h[i + 1] <= h[(2 * i) + 2]
    /\ (2 * i) + 2 < Len(h) => h[i + 1] <= h[(2 * i) + 3]

NonDecreasing(s) == \A k \in 1..(Len(s) - 1) : s[k] <= s[k + 1]

\* C1: whenever the constructor, an insert or a pop has returned, every
\* stored element is <= each of its children that is in bounds.
C1_HeapProperty == IsHeap(heap)

C1_Witness ==
  /\ last.op = "pop"
  /\ Len(last.steps) >= 2
  /\ Len(heap) >= 3

\* C2: a pop that succeeds returns a value <= every element left in the
\* heap, and leaves the heap exactly one element shorter.
C2_PopReturnsMin ==
  (last.op = "pop" /\ last.err = "none") =>
     /\ Len(last.ret) = 1
     /\ \A k \in DOMAIN heap : last.ret[1] <= heap[k]
     /\ Len(heap) = Len(last.pre) - 1

C2_Witness ==
  /\ last.op = "pop"
  /\ last.err = "none"
  /\ Len(heap) >= 2
  /\ \E k \in DOMAIN heap : last.ret[1] < heap[k]

\* C3: once every value of items is in (by the constructor or by one insert
\* each) and pops have emptied the heap, the popped values are items in
\* sorted order: non-decreasing, and the same multiset.  The values popped
\* so far are non-decreasing at every point of the drain.
C3_SortedExtraction ==
  /\ NonDecreasing(out)
  /\ (pending = <<>> /\ heap = <<>>) =>
        /\ Len(out) = Len(items)
        /\ BagOf(out) = BagOf(items)

C3_Witness ==
  /\ pending = <<>>
  /\ heap = <<>>
  /\ Len(out) >= 3
  /\ ~NonDecreasing(items)
  /\ \E j, k \in DOMAIN items : j # k /\ items[j] = items[k]

\* C4: the stored multiset is the constructor's data plus the inserted
\* values minus the popped ones, and the length is len(data) + inserts -
\* successful pops; construction permutes its input; an insert adds exactly
\* its value.
C4_Accounting ==
  /\ BagOf(heap) = expected
  /\ Len(heap) = count
  /\ last.op = "init" => BagOf(heap) = BagOf(last.pre)
  /\ last.op = "insert" =>
        /\ Len(heap) = Len(last.pre) + 1
        /\ BagOf(heap) = [BagOf(last.pre) EXCEPT ![last.arg[1]] = @ + 1]

C4_Witness ==
  /\ last.op = "insert"
  /\ last.swaps # <<>>
  /\ Len(heap) >= 3

\* C5: pop on an empty heap raises IndexError, returns nothing and leaves
\* the heap empty; pop on a non-empty heap never fails.
C5_EmptyPop ==
  last.op = "pop" =>
     IF last.pre = <<>>
       THEN last.err = "IndexError" /\ last.ret = <<>> /\ heap = <<>>
       ELSE last.err = "none" /\ Len(last.ret) = 1

C5_Witness ==
  /\ last.op = "pop"
  /\ last.pre = <<>>
  /\ last.err = "IndexError"
  /\ heap = <<>>

\* C6: the heap's storage is not the caller's list: once the heap is
\* constructed, an assignment by the caller to its list neither changes the
\* stored elements nor breaks the heap property, and insert and pop leave
\* the caller's list as it was.
C6_ExclusiveOwnership ==
  /\ last.op = "setitem" => heap = last.pre /\ IsHeap(heap)
  /\ last.op \in {"insert", "pop"} => arr = last.prearr

C8_BuildVisitsOnlyParents ==
  (last.op = "init" /\ Len(last.pre) >= 2) =>
     LET n == Len(last.pre)
         calls == last.calls
     IN  /\ calls # <<>>
         /\ (2 * calls[1]) + 1 < n
         /\ (2 * (calls[1] + 1)) + 1 >= n
         /\ calls[Len(calls)] = 0
         /\ \A k \in 1..(Len(calls) - 1) : calls[k + 1] = calls[k] - 1
         /\ \A k \in DOMAIN calls : (2 * calls[k]) + 1 < n

\* What C9 says of one call of heapify, s, and of the call after it, t.
HeapifyStepOK(s) ==
  LET h == s.pre
      i == s.i
      l == (2 * i) + 1
      r == (2 * i) + 2
      cand == {i} \cup {c \in {l, r} : c < Len(h)}
  IN  /\ s.smallest \in cand
      /\ \A c \in cand : h[s.smallest + 1] <= h[c + 1]
      /\ (\A c \in cand : h[i + 1] <= h[c + 1]) => s.smallest = i
      /\ (r < Len(h) /\ h[l + 1] = h[r + 1] /\ h[l + 1] < h[i + 1]) =>
            s.smallest = l

HeapifyTie(s) ==
  /\ (2 * s.i) + 2 < Len(s.pre)
  /\ s.pre[(2 * s.i) + 2] = s.pre[(2 * s.i) + 3]
  /\ s.pre[(2 * s.i) + 2] < s.pre[s.i + 1]

HeapifyNextOK(s, t) ==
  s.smallest # s.i =>
     /\ t.i = s.smallest
     /\ Len(t.pre) = Len(s.pre)
     /\ t.pre[s.i + 1] = s.pre[s.smallest + 1]
     /\ t.pre[s.smallest + 1] = s.pre[s.i + 1]
     /\ \A k \in DOMAIN s.pre :
           k \notin {s.i + 1, s.smallest + 1} => t.pre[k] = s.pre[k]

\* C9: every call of heapify picks a minimum of the element at i and its
\* in-bounds children, keeps i when it is <= both, and picks the left child
\* when the children are equal and both smaller; when it picks a child it
\* swaps the two, leaves every other position (the right child's in a tie)
\* as it was and goes on at the child's index; it stops when it picks i.
C9_SiftDownTieBreak ==
  LET steps == last.steps
  IN  /\ \A k \in DOMAIN steps : HeapifyStepOK(steps[k])
      /\ \A k \in 1..(Len(steps) - 1) : HeapifyNextOK(steps[k], steps[k + 1])
      /\ steps # <<>> =>
            /\ steps[Len(steps)].smallest = steps[Len(steps)].i
            /\ steps[Len(steps)].pre = heap

C9_Witness ==
  /\ Len(last.steps) >= 2
  /\ HeapifyTie(last.steps[1])
  /\ last.steps[2].i = (2 * last.steps[1].i) + 1

\* C10: insert swaps the new element with its parent only from an index
\* i > 0 whose parent holds a strictly greater value, looks up a parent only
\* for i > 0, and when the value is >= the parent of the append position it
\* swaps nothing: the list is the old one with the value appended.
C10_StrictSiftUp ==
  last.op = "insert" =>
     LET h == last.pre
         n == Len(last.pre)
         value == last.arg[1]
     IN  /\ \A k \in DOMAIN last.swaps :
               LET i == last.swaps[k][1]
                   p == last.swaps[k][2]
               IN  /\ i > 0
                   /\ 2 * p \in {i - 1, i - 2}
                   /\ h[p + 1] > value
         /\ \A k \in DOMAIN last.probes : last.probes[k] > 0
         /\ (n = 0 \/ h[((n - 1) \div 2) + 1] <= value) =>
               last.swaps = <<>> /\ heap = Append(h, value)

C10_Witness ==
  /\ last.op = "insert"
  /\ Len(last.pre) >= 3
  /\ last.pre[((Len(last.pre) - 1) \div 2) + 1] = last.arg[1]
  /\ heap = Append(last.pre, last.arg[1])

====
